---- MODULE Spec2Model ----
(***************************************************************************)
(* Model of scripts/main.py: the static-site generator's header parser     *)
(* (head_to_context) and its batch driver (run).                           *)
(*                                                                         *)
(* Text is modelled as a sequence of tokens (chunks of characters): the    *)
(* separator ":", the whitespace tokens " " and "\n", and word tokens.     *)
(* A line is a token sequence, a file a sequence of lines.                 *)
(***************************************************************************)
EXTENDS Integers, Sequences, FiniteSets, TLC

VARIABLES
    head,          \* head_to_context's argument (the five lines)
    parsed,        \* outcome of head_to_context(head, path), or not called yet
    src,           \* SRC_DIR: file name -> file (sequence of lines)
    posts,         \* POSTS_DIR: entry name -> entry (regular file or directory)
    index,         \* ROOT_DIR/index.html
    pc,            \* position of run(): "idle", "reset", "loop", "index", "exited"
    todo,          \* files SRC_DIR.glob("*.md") has not yielded yet in this run
    order,         \* files yielded so far in this run, in enumeration order
    render_paths,  \* run()'s accumulator of RenderRecords
    log,           \* loguru lines emitted in this run
    exit,          \* how the process of this run ended
    run_no,        \* number of the run (successive invocations of the script)
    before,        \* posts and index as they were when this run started
    last           \* posts, index and enumeration order at the end of the previous run

vars == <<head, parsed, src, posts, index, pc, todo, order, render_paths, log,
          exit, run_no, before, last>>

-----------------------------------------------------------------------------
(* Bounds of the model *)

MaxDocs == 2    \* at most this many files in SRC_DIR
MaxRuns == 2    \* successive runs of the script on the same SRC_DIR

-----------------------------------------------------------------------------
(* Program constants *)

HEADER_LINES == 5

Title == <<"Title">>
Template == <<"Template">>
MetaDescription == <<"MetaDescription">>
DatePublished == <<"DatePublished">>
IsDraft == <<"IsDraft">>
PostMarkup == <<"PostMarkup">>

\* keys of the HEADERS dict
header_keys == {Title, Template, MetaDescription, DatePublished, IsDraft}

\* files present under TEMPLATES_DIR
TEMPLATES == {<<"post.jinja2">>, <<"index.jinja2">>}

SiteTitle == <<"liquidscorpio - weblog">>

-----------------------------------------------------------------------------
(* str.split(":", 1) and str.strip() *)

Whitespace == {" ", "\n"}

RECURSIVE lstrip(_)
lstrip(s) == IF s # <<>> /\ Head(s) \in Whitespace THEN lstrip(Tail(s)) ELSE s

RECURSIVE rstrip(_)
rstrip(s) ==
    IF s # <<>> /\ s[Len(s)] \in Whitespace THEN rstrip(SubSeq(s, 1, Len(s) - 1)) ELSE s

strip(s) == rstrip(lstrip(s))

\* index of the first ":" of the line, 0 when there is none
FirstColon(line) ==
    IF \E i \in 1..Len(line) : line[i] = ":"
    THEN CHOOSE i \in 1..Len(line) : line[i] = ":" /\ \A j \in 1..(i - 1) : line[j] # ":"
    ELSE 0

\* line.split(":", 1): two parts around the first colon, one part without a colon
split(line) ==
    LET i == FirstColon(line)
    IN  IF i = 0 THEN <<line>>
        ELSE <<SubSeq(line, 1, i - 1), SubSeq(line, i + 1, Len(line))>>

-----------------------------------------------------------------------------
(* The conversions of HEADERS: str, dateutil's parse, int.  A conversion    *)
(* yields [ok |-> TRUE, v |-> value] or [ok |-> FALSE] when it raises.      *)

\* int(value), on the stripped value
int(value) ==
    IF value = <<"0">> THEN [ok |-> TRUE, v |-> 0]
    ELSE IF value = <<"1">> THEN [ok |-> TRUE, v |-> 1]
    ELSE IF value = <<"-", "1">> THEN [ok |-> TRUE, v |-> -1]
    ELSE [ok |-> FALSE]

DayOf(tok) ==
    IF tok = "2023-12-01" THEN 231201
    ELSE IF tok = "2024-01-01" THEN 240101
    ELSE IF tok = "2024-06-01" THEN 240601
    ELSE 0

\* dateutil.parser.parse(value): a datetime, naive unless the text carries a zone
parse(value) ==
    IF Len(value) = 1 /\ DayOf(value[1]) # 0
    THEN [ok |-> TRUE, v |-> [day |-> DayOf(value[1]), min |-> 0, aware |-> FALSE]]
    ELSE IF Len(value) = 5 /\ DayOf(value[1]) # 0
            /\ SubSeq(value, 2, 5) = <<" ", "10", ":", "30">>
    THEN [ok |-> TRUE, v |-> [day |-> DayOf(value[1]), min |-> 630, aware |-> FALSE]]
    ELSE IF Len(value) = 5 /\ DayOf(value[1]) # 0
            /\ SubSeq(value, 2, 5) = <<"T00", ":", "00", "Z">>
    THEN [ok |-> TRUE, v |-> [day |-> DayOf(value[1]), min |-> 0, aware |-> TRUE]]
    ELSE [ok |-> FALSE]

\* str(value)
str(value) == [ok |-> TRUE, v |-> value]

\* HEADERS[key](value)
Convert(key, value) ==
    IF key = DatePublished THEN parse(value)
    ELSE IF key = IsDraft THEN int(value)
    ELSE str(value)

-----------------------------------------------------------------------------
(* head_to_context *)

EmptyDict == [k \in {} |-> <<>>]

SetItem(d, key, v) == [k \in (DOMAIN d) \cup {key} |-> IF k = key THEN v ELSE d[k]]

\* the operands of the difference exchanged
DifferenceExchanged(result) == (DOMAIN result) \ header_keys

\* header_keys.difference(set(result.keys()))
Difference(result) == header_keys \ DOMAIN result

ErrInvalid(path, key) ==
    [level |-> "ERROR", fmt |-> "File {path} has invalid header field: {key}.",
     path |-> path, key |-> key]

ErrParse(path, key) ==
    [level |-> "ERROR", fmt |-> "Unable to parse {key} from {path}.",
     path |-> path, key |-> key]

ErrMissing(path, difference) ==
    [level |-> "ERROR", fmt |-> "Missing header fields {difference} in the file {path}.",
     path |-> path, difference |-> difference]

Returned(result) == [kind |-> "return", result |-> result]
Exited(line) == [kind |-> "exit", code |-> 1, logged |-> line]
Raised(exc) == [kind |-> "raise", exc |-> exc]

\* the test after the loop left out
FinishUnchecked(result, path) == Returned(result)

\* the test after the loop (lines 45-49)
Finish(result, path) ==
    IF Difference(result) # {}
    THEN Exited(ErrMissing(path, Difference(result)))
    ELSE Returned(result)

\* the loop, passing over a line with an unknown key instead of exiting
RECURSIVE LoopSkippingUnknown(_, _, _, _)
LoopSkippingUnknown(lines, i, result, path) ==
    IF i > Len(lines)
    THEN IF header_keys \ DOMAIN result # {}
         THEN Exited(ErrMissing(path, header_keys \ DOMAIN result))
         ELSE Returned(result)
    ELSE LET parts == split(lines[i])
         IN  IF Len(parts) # 2 THEN Raised("ValueError")
             ELSE LET key   == strip(parts[1])
                      value == strip(parts[2])
                  IN  IF key \notin header_keys
                      THEN LoopSkippingUnknown(lines, i + 1, result, path)
                      ELSE IF ~Convert(key, value).ok THEN Exited(ErrParse(path, key))
                      ELSE LoopSkippingUnknown(lines, i + 1,
                               SetItem(result, key, Convert(key, value).v), path)

\* the loop over the lines (lines 32-43), from line i with `result` built so far
RECURSIVE Loop(_, _, _, _)
Loop(lines, i, result, path) ==
    IF i > Len(lines) THEN Finish(result, path)
    ELSE LET parts == split(lines[i])
         IN  IF Len(parts) # 2 THEN Raised("ValueError")
             ELSE LET key   == strip(parts[1])
                      value == strip(parts[2])
                  IN  IF key \notin header_keys THEN Exited(ErrInvalid(path, key))
                      ELSE IF ~Convert(key, value).ok THEN Exited(ErrParse(path, key))
                      ELSE Loop(lines, i + 1, SetItem(result, key, Convert(key, value).v), path)

head_to_context(lines, path) == Loop(lines, 1, EmptyDict, path)

-----------------------------------------------------------------------------
(* Lines used to build headers and files *)

LTitle    == <<"Title", ":", " ", "Hello", "\n">>
LTemplate == <<"Template", ":", " ", "post.jinja2", "\n">>
LNoTpl    == <<"Template", ":", " ", "nonexistent.jinja2", "\n">>
LMeta     == <<"MetaDescription", ":", "About", " ", "\n">>
LDate1    == <<"DatePublished", ":", " ", "2023-12-01", "\n">>
LDate2    == <<"DatePublished", ":", " ", "2024-01-01", "\n">>
LDate3    == <<" ", "DatePublished", " ", ":", " ", "2024-06-01", " ", "10", ":", "30", "\n">>
LDate2Z   == <<"DatePublished", ":", " ", "2024-01-01", "T00", ":", "00", "Z", "\n">>
LDraft0   == <<"IsDraft", ":", " ", "0", "\n">>
LDraft1   == <<"IsDraft", ":", " ", " ", "1", " ", "\n">>
LAuthor   == <<"Author", ":", " ", "Hello", "\n">>
LBadDate  == <<"DatePublished", ":", " ", "soon", "\n">>
LBadDraft == <<"IsDraft", ":", " ", "yes", "\n">>
LBlank    == <<"\n">>
LText     == <<"Some", " ", "text", "\n">>
LNote     == <<"Note", ":", " ", "text", "\n">>


\* a source document: a five-line header, a blank line and a body
Doc(tplLine, dateLine, draftLine) ==
    <<LTitle, tplLine, LMeta, dateLine, draftLine, LBlank, LText>>

FPost1      == Doc(LTemplate, LDate1, LDraft0)
FPost2      == Doc(LTemplate, LDate2, LDraft1)
FPost3      == Doc(LTemplate, LDate3, LDraft0)
FPost2Z     == Doc(LTemplate, LDate2Z, LDraft0)
FNoTpl      == Doc(LNoTpl, LDate1, LDraft0)
FShort      == <<LTitle, LTemplate, LMeta>>
FEarlyBlank == <<LTitle, LTemplate, LMeta, LBlank, LText, LText>>
FEarlyNote  == <<LTitle, LTemplate, LMeta, LDate1, LNote, LText>>
FAuthor     == <<LTitle, LTemplate, LAuthor, LDate1, LDraft0, LText>>

\* the files a source directory of the model may hold
Files == {FPost1, FPost2, FPost3, FPost2Z, FNoTpl, FShort, FEarlyBlank, FEarlyNote, FAuthor}

\* the lines head_to_context is explored on
HeaderLines ==
    {LTitle, LTemplate, LMeta, LDate3, LDraft1, LAuthor, LNote, LBadDate, LBadDraft, LBlank}

StemSeq == <<"a", "b", "c", "d">>

\* candidate names of SRC_DIR.glob("*.md")
SrcNames == {<<StemSeq[i], ".md">> : i \in 1..MaxDocs}

-----------------------------------------------------------------------------
(* The file system *)

\* path.stem
stem(path) == path[1]

\* POSTS_DIR.joinpath(path.stem + ".html"), as an entry name of POSTS_DIR
out_path(path) == <<stem(path), ".html">>

RegularFile(data) == [kind |-> "file", data |-> data]
Directory == [kind |-> "dir"]

\* f.is_file()
is_file(entry) == entry.kind = "file"

\* content of a file no run of this program on SRC_DIR produces
Stale == [template |-> <<"stale">>, context |-> EmptyDict]

Restrict(f, S) == [x \in S |-> f[x]]

\* the reset deleting only the outputs of the present source documents
UnlinkedOutputsOnly(dir) ==
    Restrict(dir, {n \in DOMAIN dir :
                      ~(is_file(dir[n]) /\ \E p \in DOMAIN src : n = <<p[1], ".html">>)})

\* [f.unlink() for f in POSTS_DIR.glob("*") if f.is_file()]
Unlinked(dir) == Restrict(dir, {n \in DOMAIN dir : ~is_file(dir[n])})

\* open(out_path, "w") ... out_file.write(render)
WriteFile(dir, name, data) ==
    [n \in (DOMAIN dir) \cup {name} |-> IF n = name THEN RegularFile(data) ELSE dir[n]]

IndexAbsent == [state |-> "absent"]
IndexOld == [state |-> "old"]
IndexTruncated == [state |-> "empty"]
IndexWritten(render) == [state |-> "written", render |-> render]

\* TEMPLATES_DIR.joinpath(name).exists()
exists(name) == name \in TEMPLATES

\* initial contents of POSTS_DIR: nothing, or leftover files of earlier runs
\* (under the name of a present document, under another name) and a
\* subdirectory; no subdirectory bears the name of an output file
PostsInit ==
    {EmptyDict,
     <<"old", ".html">> :> RegularFile(Stale),
     <<"drafts">> :> Directory,
     (<<"a", ".html">> :> RegularFile(Stale)) @@ (<<"old", ".html">> :> RegularFile(Stale))
         @@ (<<"drafts">> :> Directory)}

-----------------------------------------------------------------------------
(* The index: RenderRecord and sorted(render_paths, key=..., reverse=True) *)

RenderRecord(in, out, title, date, draft) ==
    [InPath |-> in, OutPath |-> out, Title |-> title, DatePublished |-> date,
     IsDraft |-> draft]

\* RenderRecord.Url
Url(r) == <<"posts/">> \o r.OutPath

\* datetime's x < y, defined between two naive or two aware values
Less(x, y) == x.day < y.day \/ (x.day = y.day /\ x.min < y.min)

\* comparing a naive with an aware datetime raises TypeError
Comparable(records) ==
    \A i, j \in 1..Len(records) :
        records[i].DatePublished.aware = records[j].DatePublished.aware

\* insert r behind every record whose key is not less than r's
RECURSIVE InsertDesc(_, _)
InsertDesc(r, s) ==
    IF s = <<>> THEN <<r>>
    ELSE IF Less(Head(s).DatePublished, r.DatePublished) THEN <<r>> \o s
    ELSE <<Head(s)>> \o InsertDesc(r, Tail(s))

\* sorted without reverse=True: ascending
RECURSIVE sortedAscending(_)
sortedAscending(records) ==
    IF records = <<>> THEN <<>>
    ELSE LET rest == sortedAscending(SubSeq(records, 1, Len(records) - 1))
             r == records[Len(records)]
             n == Cardinality({i \in 1..Len(rest) :
                                  ~Less(r.DatePublished, rest[i].DatePublished)})
         IN  SubSeq(rest, 1, n) \o <<r>> \o SubSeq(rest, n + 1, Len(rest))

\* the records left in enumeration order
unsorted(records) == records

\* sorted(records, key=lambda x: x.DatePublished, reverse=True)
RECURSIVE sorted(_)
sorted(records) ==
    IF records = <<>> THEN <<>>
    ELSE InsertDesc(records[Len(records)], sorted(SubSeq(records, 1, Len(records) - 1)))

\* md.convert(text)
convert(text) == [html |-> text]

\* template.render(**context)
Render(context) == [template |-> context[Template], context |-> context]

\* the index rendered without the drafts
RenderIndexPublished(records) ==
    [template |-> <<"index.jinja2">>,
     posts |-> sorted(SelectSeq(records, LAMBDA r : r.IsDraft = 0)),
     Title |-> SiteTitle]

\* the index template's render(posts=..., Title=...)
RenderIndex(records) ==
    [template |-> <<"index.jinja2">>, posts |-> sorted(records), Title |-> SiteTitle]

-----------------------------------------------------------------------------
(* Log lines and exit statuses of run() *)

ErrNoHeader(path) ==
    [level |-> "ERROR", fmt |-> "Not all header provided in {path}", path |-> path]

\* f"{tpl}" for the bool bound by the walrus at line 85
Format(tpl) == IF tpl THEN <<"True">> ELSE <<"False">>

ErrTemplate(tpl) ==
    [level |-> "ERROR", fmt |-> "Template {tpl} does not exists.", tpl |-> Format(tpl)]

InfoRendered(out) ==
    [level |-> "INFO", fmt |-> "Rendered {out_path}.", out_path |-> out]

NotCalled == [kind |-> "none"]
Running == [state |-> "running"]
\* sys.exit(code); an uncaught exception ends the interpreter with status 1
ExitWith(code, exc) == [state |-> "exited", code |-> code, exc |-> exc]


-----------------------------------------------------------------------------
(* run(), one run after another on the same SRC_DIR *)

Snapshot == [posts |-> posts, index |-> index]

NoLast == [posts |-> EmptyDict, index |-> IndexAbsent, order |-> <<>>, exit |-> Running]

\* the state every behaviour of the program starts in: nothing has run yet
Init ==
    /\ head = <<>>
    /\ parsed = NotCalled
    /\ \E S \in SUBSET SrcNames : src \in [S -> Files]
    /\ posts \in PostsInit
    /\ index \in {IndexAbsent, IndexOld}
    /\ pc = "idle"
    /\ todo = {}
    /\ order = <<>>
    /\ render_paths = <<>>
    /\ log = <<>>
    /\ exit = Running
    /\ run_no = 1
    /\ before = [posts |-> EmptyDict, index |-> IndexAbsent]
    /\ last = NoLast

\* logger.error(line) followed by sys.exit(1)
Fatal(line) ==
    /\ log' = Append(log, line)
    /\ exit' = ExitWith(1, "SystemExit")
    /\ pc' = "exited"

\* an exception nothing catches: a traceback, no log line, exit status 1
Crash(exc) ==
    /\ log' = log
    /\ exit' = ExitWith(1, exc)
    /\ pc' = "exited"

\* lines 66-70: the accumulator is created and POSTS_DIR is emptied of its files
Reset ==
    /\ pc = "idle"
    /\ before' = Snapshot
    /\ posts' = Unlinked(posts)
    /\ render_paths' = <<>>
    /\ todo' = DOMAIN src
    /\ order' = <<>>
    /\ log' = <<>>
    /\ exit' = Running
    /\ head' = <<>>
    /\ parsed' = NotCalled
    /\ pc' = IF DOMAIN src = {} THEN "index" ELSE "loop"
    /\ UNCHANGED <<src, index, run_no, last>>

\* what is left of the loop after the iteration on `path` went through
NextPc(path) == IF todo \ {path} = {} THEN "index" ELSE "loop"

\* lines 92-105: the output file is written and the record appended
WriteOut(path, context) ==
    LET out == out_path(path)
    IN  /\ posts' = WriteFile(posts, out, Render(context))
        /\ render_paths' = Append(render_paths,
               RenderRecord(path, out, context[Title], context[DatePublished],
                            context[IsDraft]))
        /\ log' = Append(log, InfoRendered(out))
        /\ pc' = NextPc(path)
        /\ UNCHANGED exit

\* lines 82-90: the context is completed and the template looked up
RenderDoc(path, result) ==
    LET context == SetItem(result, PostMarkup,
                           convert(SubSeq(src[path], HEADER_LINES + 1, Len(src[path]))))
        tpl == exists(context[Template])
    IN  IF tpl THEN WriteOut(path, context)
        ELSE /\ Fatal(ErrTemplate(tpl))
             /\ UNCHANGED <<posts, render_paths>>

\* lines 73-105: one iteration of the loop, on the file glob yields next
ProcessDoc(path) ==
    /\ pc = "loop"
    /\ path \in todo
    /\ todo' = todo \ {path}
    /\ order' = Append(order, path)
    /\ IF Len(src[path]) < HEADER_LINES
       THEN /\ Fatal(ErrNoHeader(path))
            /\ head' = <<>>
            /\ parsed' = NotCalled
            /\ UNCHANGED <<posts, render_paths>>
       ELSE LET lines == SubSeq(src[path], 1, HEADER_LINES)
                got == head_to_context(lines, path)
            IN  /\ head' = lines
                /\ parsed' = got
                /\ IF got.kind = "raise"
                   THEN /\ Crash(got.exc)
                        /\ UNCHANGED <<posts, render_paths>>
                   ELSE IF got.kind = "exit"
                   THEN /\ Fatal(got.logged)
                        /\ UNCHANGED <<posts, render_paths>>
                   ELSE RenderDoc(path, got.result)
    /\ UNCHANGED <<src, index, run_no, before, last>>

\* lines 107-117: index.html is opened for writing, then rendered and written
WriteIndex ==
    /\ pc = "index"
    /\ IF Comparable(render_paths)
       THEN /\ index' = IndexWritten(RenderIndex(render_paths))
            /\ exit' = ExitWith(0, "none")
       ELSE /\ index' = IndexTruncated
            /\ exit' = ExitWith(1, "TypeError")
    /\ pc' = "exited"
    /\ UNCHANGED <<head, parsed, src, posts, todo, order, render_paths, log, run_no,
                   before, last>>

\* the script is invoked again on the unchanged SRC_DIR
Again ==
    /\ pc = "exited"
    /\ run_no < MaxRuns
    /\ last' = [posts |-> posts, index |-> index, order |-> order, exit |-> exit]
    /\ run_no' = run_no + 1
    /\ pc' = "idle"
    /\ UNCHANGED <<head, parsed, src, posts, index, todo, order, render_paths, log,
                   exit, before>>

Next ==
    \/ Reset
    \/ \E path \in SrcNames : ProcessDoc(path)
    \/ WriteIndex
    \/ Again

Spec == Init /\ [][Next]_vars

-----------------------------------------------------------------------------
(* head_to_context on its own, over every header built from HeaderLines *)

HeadPath == <<"a", ".md">>

InitParse ==
    /\ head \in [1..HEADER_LINES -> HeaderLines]
    /\ parsed = NotCalled
    /\ src = EmptyDict
    /\ posts = EmptyDict
    /\ index = IndexAbsent
    /\ pc = "parse"
    /\ todo = {}
    /\ order = <<>>
    /\ render_paths = <<>>
    /\ log = <<>>
    /\ exit = Running
    /\ run_no = 1
    /\ before = [posts |-> EmptyDict, index |-> IndexAbsent]
    /\ last = NoLast

\* context = head_to_context(head, path)
Parse ==
    /\ pc = "parse"
    /\ parsed' = head_to_context(head, HeadPath)
    /\ pc' = "parsed"
    /\ UNCHANGED <<head, src, posts, index, todo, order, render_paths, log, exit,
                   run_no, before, last>>

SpecParse == InitParse /\ [][Parse]_vars


-----------------------------------------------------------------------------
(* Vocabulary of the properties of head_to_context *)

\* the line has the form "Key: value"
KeyValueLine(line) == \E i \in 1..Len(line) : line[i] = ":"

KeyOf(line) == strip(SubSeq(line, 1, FirstColon(line) - 1))

ValueOf(line) == strip(SubSeq(line, FirstColon(line) + 1, Len(line)))

UnknownKeyLine(line) == KeyValueLine(line) /\ KeyOf(line) \notin header_keys

BadValueLine(line) ==
    /\ KeyValueLine(line)
    /\ KeyOf(line) \in header_keys
    /\ ~Convert(KeyOf(line), ValueOf(line)).ok

\* a "Key: value" line with a key of the schema and a value its conversion accepts
GoodLine(line) == KeyValueLine(line) /\ ~UnknownKeyLine(line) /\ ~BadValueLine(line)

\* the required fields no line of the header carries
Absent(lines) ==
    header_keys \ {KeyOf(lines[i]) : i \in {j \in 1..Len(lines) : KeyValueLine(lines[j])}}

\* the five schema keys once each, every value parseable
WellFormed(lines) ==
    /\ Len(lines) = HEADER_LINES
    /\ \A i \in 1..Len(lines) : GoodLine(lines[i])
    /\ \A k \in header_keys :
           Cardinality({i \in 1..Len(lines) : KeyOf(lines[i]) = k}) = 1

\* the first line of the header that is not a GoodLine, 0 when all are
FirstBad(lines) ==
    IF \A i \in 1..Len(lines) : GoodLine(lines[i]) THEN 0
    ELSE CHOOSE i \in 1..Len(lines) :
             ~GoodLine(lines[i]) /\ \A j \in 1..(i - 1) : GoodLine(lines[j])

FmtInvalid == "File {path} has invalid header field: {key}."
FmtParse == "Unable to parse {key} from {path}."
FmtMissing == "Missing header fields {difference} in the file {path}."

-----------------------------------------------------------------------------
(* C2: head_to_context never returns a partial result.  On every list of    *)
(* five lines it either returns a mapping whose key set is exactly the five *)
(* schema keys, each value being its line's value coerced by the field's    *)
(* conversion (an integer for IsDraft, a datetime for DatePublished, the    *)
(* stripped text for the others), or it terminates the process; and on a    *)
(* header carrying the five schema keys once each with parseable values it  *)
(* returns.                                                                 *)
C2_NoPartialResult ==
    pc = "parsed" =>
        /\ parsed.kind \in {"return", "exit", "raise"}
        /\ parsed.kind = "exit" => parsed.code = 1
        /\ parsed.kind = "return" =>
               /\ DOMAIN parsed.result = header_keys
               /\ \A i \in 1..Len(head) :
                      parsed.result[KeyOf(head[i])] =
                          Convert(KeyOf(head[i]), ValueOf(head[i])).v
               /\ parsed.result[IsDraft] \in Int
               /\ parsed.result[DatePublished].day \in Nat
               /\ parsed.result[Title] \in Seq({"Hello"})
        /\ WellFormed(head) => parsed.kind = "return"

\* a well-formed header, its lines in another order than the schema's, was parsed
C2_Witness ==
    /\ pc = "parsed"
    /\ WellFormed(head)
    /\ KeyOf(head[1]) = IsDraft
    /\ parsed.kind = "return"
    /\ parsed.result[IsDraft] = 1
    /\ parsed.result[DatePublished] = [day |-> 240601, min |-> 630, aware |-> FALSE]

-----------------------------------------------------------------------------
(* C3, as claimed: whenever the five "Key: value" lines omit a required     *)
(* field, head_to_context exits with the missing-fields error listing       *)
(* exactly the absent fields.                                               *)
C3_AlwaysMissingFieldsError ==
    (/\ pc = "parsed"
     /\ \A i \in 1..Len(head) : KeyValueLine(head[i])
     /\ Absent(head) # {})
        => /\ parsed.kind = "exit"
           /\ parsed.logged = ErrMissing(HeadPath, Absent(head))

(* C3, amended: when the five lines omit a required field, head_to_context  *)
(* terminates the process; the error is the missing-fields error, listing   *)
(* exactly the absent fields, when every line carries a schema key with a   *)
(* parseable value (a field is then omitted because another is repeated);   *)
(* when a line carries an unknown key or an unparseable value the error is  *)
(* that line's and no missing-fields error is logged.                       *)
C3_MissingFieldsReported ==
    (/\ pc = "parsed"
     /\ \A i \in 1..Len(head) : KeyValueLine(head[i])
     /\ Absent(head) # {})
        => /\ parsed.kind = "exit"
           /\ parsed.code = 1
           /\ (\A i \in 1..Len(head) : GoodLine(head[i]))
                  => parsed.logged = ErrMissing(HeadPath, Absent(head))
           /\ (\E i \in 1..Len(head) : ~GoodLine(head[i]))
                  => parsed.logged.fmt \in {FmtInvalid, FmtParse}

\* a header of good lines that repeats keys and omits two fields was parsed
C3_Witness ==
    /\ pc = "parsed"
    /\ \A i \in 1..Len(head) : GoodLine(head[i])
    /\ Absent(head) = {Title, IsDraft}
    /\ parsed.kind = "exit"
    /\ parsed.logged.fmt = FmtMissing
    /\ parsed.logged.difference = {Title, IsDraft}

-----------------------------------------------------------------------------
(* C4, as claimed: whenever one of the five "Key: value" lines carries a    *)
(* key outside the schema, head_to_context exits with the invalid-header-   *)
(* field error naming an offending key, whatever the other lines contain    *)
(* and wherever the offending line stands.                                  *)
C4_AlwaysNamesUnknownKey ==
    (/\ pc = "parsed"
     /\ \A i \in 1..Len(head) : KeyValueLine(head[i])
     /\ \E i \in 1..Len(head) : UnknownKeyLine(head[i]))
        => /\ parsed.kind = "exit"
           /\ parsed.logged.fmt = FmtInvalid
           /\ \E i \in 1..Len(head) :
                  UnknownKeyLine(head[i]) /\ parsed.logged.key = KeyOf(head[i])

(* C4, amended: when one of the five lines carries a key outside the        *)
(* schema, head_to_context terminates the process at the first line that    *)
(* fails; the error names the offending key when every line before the      *)
(* first offending line is a "Key: value" line with a schema key and a      *)
(* parseable value; otherwise it is the error of that earlier line (the     *)
(* unparseable field, or a ValueError for a line without a colon).          *)
C4_FirstFailingLineReported ==
    (/\ pc = "parsed"
     /\ \E i \in 1..Len(head) : UnknownKeyLine(head[i]))
        => LET bad == head[FirstBad(head)]
           IN  /\ parsed.kind \in {"exit", "raise"}
               /\ UnknownKeyLine(bad) =>
                      /\ parsed.kind = "exit"
                      /\ parsed.code = 1
                      /\ parsed.logged = ErrInvalid(HeadPath, KeyOf(bad))
               /\ BadValueLine(bad) =>
                      /\ parsed.kind = "exit"
                      /\ parsed.logged = ErrParse(HeadPath, KeyOf(bad))
               /\ ~KeyValueLine(bad) =>
                      /\ parsed.kind = "raise"
                      /\ parsed.exc = "ValueError"

\* the unknown key stands on the last line, behind four good lines, and is named
C4_Witness ==
    /\ pc = "parsed"
    /\ \A i \in 1..4 : GoodLine(head[i])
    /\ UnknownKeyLine(head[5])
    /\ parsed.kind = "exit"
    /\ parsed.logged.fmt = FmtInvalid
    /\ parsed.logged.key = <<"Author">>


-----------------------------------------------------------------------------
(* Vocabulary of the properties of run() *)

FilesOf(dir) == {n \in DOMAIN dir : is_file(dir[n])}

Range(seq) == {seq[i] : i \in 1..Len(seq)}

Pos(seq, x) == CHOOSE i \in 1..Len(seq) : seq[i] = x

LastOf(seq) == seq[Len(seq)]

\* the value the file's header gives the field `key`
FieldOf(file, key) ==
    ValueOf(file[CHOOSE i \in 1..HEADER_LINES : KeyOf(file[i]) = key])

\* a document that passes: a well-formed header naming an existing template
ValidDoc(file) ==
    /\ Len(file) >= HEADER_LINES
    /\ WellFormed(SubSeq(file, 1, HEADER_LINES))
    /\ FieldOf(file, Template) \in TEMPLATES

\* the number of leading lines that are "Key: value" lines of the schema
RECURSIVE HeaderLength(_)
HeaderLength(file) ==
    IF file # <<>> /\ KeyValueLine(Head(file)) /\ KeyOf(Head(file)) \in header_keys
    THEN 1 + HeaderLength(Tail(file))
    ELSE 0

\* x >= y between two datetimes of the same kind
NotBefore(x, y) == x.day > y.day \/ (x.day = y.day /\ x.min >= y.min)

SameInstant(x, y) == x.day = y.day /\ x.min = y.min

FmtTemplate == "Template {tpl} does not exists."

Completed == pc = "exited" /\ exit.code = 0

\* the run ended inside the per-document loop
AbortedInLoop == pc = "exited" /\ exit.exc \in {"SystemExit", "ValueError"}

-----------------------------------------------------------------------------
(* C1: when run() completes, the posts given to the index template are the  *)
(* accumulated render records, ordered by DatePublished descending, two     *)
(* records of equal DatePublished standing in the order in which their      *)
(* documents were enumerated.                                               *)
C1_IndexSortedStable ==
    Completed =>
        /\ index.state = "written"
        /\ LET ps == index.render.posts
           IN  /\ Len(ps) = Len(render_paths)
               /\ Range(ps) = Range(render_paths)
               /\ \A i, j \in 1..Len(ps) :
                      i < j => NotBefore(ps[i].DatePublished, ps[j].DatePublished)
               /\ \A i, j \in 1..Len(ps) :
                      (i < j /\ SameInstant(ps[i].DatePublished, ps[j].DatePublished))
                          => Pos(order, ps[i].InPath) < Pos(order, ps[j].InPath)

\* a completed run whose index lists the later-enumerated, more recent post first
C1_Witness ==
    /\ Completed
    /\ Len(render_paths) >= 2
    /\ index.render.posts[1] = render_paths[2]
    /\ index.render.posts[2] = render_paths[1]
    /\ index.render.posts[1].DatePublished.day > index.render.posts[2].DatePublished.day

-----------------------------------------------------------------------------
(* C5, as claimed: when a document with a valid header names a template     *)
(* that does not exist under the template directory, the run aborts with a  *)
(* fatal error whose message names that template (the value of the header's *)
(* Template field) and no output file is written for the document.          *)
C5_MissingTemplateNamed ==
    (/\ pc = "exited"
     /\ parsed.kind = "return"
     /\ ~exists(parsed.result[Template]))
        => /\ exit.code = 1
           /\ log # <<>>
           /\ LastOf(log).level = "ERROR"
           /\ LastOf(log).fmt = FmtTemplate
           /\ LastOf(log).tpl = parsed.result[Template]
           /\ out_path(LastOf(order)) \notin DOMAIN posts

\* what the code does there: it aborts, writes nothing, and logs "Template False"
C5_Observed ==
    (/\ pc = "exited"
     /\ parsed.kind = "return"
     /\ ~exists(parsed.result[Template]))
        => /\ exit.code = 1
           /\ LastOf(log).fmt = FmtTemplate
           /\ LastOf(log).tpl = <<"False">>
           /\ out_path(LastOf(order)) \notin DOMAIN posts

-----------------------------------------------------------------------------
(* C6, as claimed: after a run, whatever POSTS_DIR held before, its regular *)
(* files are exactly one <stem>.html per valid source document, and no file *)
(* is left over under another name.                                         *)
C6_OnePerValidDocument ==
    pc = "exited" =>
        FilesOf(posts) = {out_path(p) : p \in {q \in DOMAIN src : ValidDoc(src[q])}}

(* C6, amended: after a run that completes (exit status 0), whatever        *)
(* POSTS_DIR held before, its regular files are exactly one <stem>.html per *)
(* source document, each the rendering of this run; after a run that        *)
(* aborts, its regular files are exactly the outputs of the documents       *)
(* enumerated before the failing one; in both cases no regular file of an   *)
(* earlier run is left, and the subdirectories are untouched.               *)
C6_DirectoryReset ==
    pc = "exited" =>
        /\ FilesOf(posts) = {r.OutPath : r \in Range(render_paths)}
        /\ \A n \in FilesOf(posts) :
               /\ posts[n].data # Stale
               /\ \E p \in Range(order) : n = <<stem(p), ".html">>
        /\ Completed =>
               /\ FilesOf(posts) = {<<stem(p), ".html">> : p \in DOMAIN src}
               /\ Cardinality(FilesOf(posts)) = Cardinality(DOMAIN src)
        /\ \A n \in DOMAIN before.posts :
               ~is_file(before.posts[n]) => (n \in DOMAIN posts /\ posts[n] = before.posts[n])

\* a completed run over two documents that started with leftovers of both kinds
C6_Witness ==
    /\ Completed
    /\ Cardinality(DOMAIN src) = 2
    /\ {<<"a", ".html">>, <<"old", ".html">>} \subseteq FilesOf(before.posts)
    /\ <<"drafts">> \in DOMAIN posts
    /\ FilesOf(posts) = {<<"a", ".html">>, <<"b", ".html">>}

-----------------------------------------------------------------------------
(* C7, as claimed: two successive runs on the unchanged SRC_DIR leave       *)
(* identical output files, the index included, in whatever order each run   *)
(* enumerates the source documents (stated here of two runs that complete). *)
C7_IdempotentAnyOrder ==
    (run_no >= 2 /\ Completed /\ last.exit.code = 0)
        => (posts = last.posts /\ index = last.index)

(* C7, amended: two successive runs on the unchanged SRC_DIR that enumerate *)
(* the source documents in the same order leave identical output files, the *)
(* index included; two successive runs that both complete leave identical   *)
(* per-document output files in whatever order each enumerates, and an      *)
(* identical index when no two documents have the same DatePublished.       *)
C7_Idempotent ==
    (run_no >= 2 /\ pc = "exited") =>
        /\ order = last.order => (posts = last.posts /\ index = last.index)
        /\ (exit.code = 0 /\ last.exit.code = 0) =>
               /\ posts = last.posts
               /\ (\A i, j \in 1..Len(render_paths) :
                       i # j => ~SameInstant(render_paths[i].DatePublished,
                                             render_paths[j].DatePublished))
                      => index = last.index

\* two completed runs that enumerated two documents in opposite orders
C7_Witness ==
    /\ run_no >= 2
    /\ Completed
    /\ last.exit.code = 0
    /\ Len(order) = 2
    /\ order # last.order
    /\ index = last.index
    /\ index.render.posts[1] = render_paths[2]

-----------------------------------------------------------------------------
(* C8, as claimed: if a document fails (header schema violation, missing    *)
(* header block, missing template) the process exits with status 1, no      *)
(* document enumerated after the failing one is parsed, rendered or         *)
(* written, and the outputs of the documents written before it remain; a    *)
(* run in which no document fails exits with status 0.                      *)
C8_FatalOrSuccess ==
    pc = "exited" =>
        IF \E p \in DOMAIN src : ~ValidDoc(src[p])
        THEN /\ exit.code = 1
             /\ ~ValidDoc(src[LastOf(order)])
             /\ \A p \in todo :
                    /\ out_path(p) \notin DOMAIN posts
                    /\ \A r \in Range(render_paths) : r.InPath # p
             /\ \A i \in 1..(Len(order) - 1) :
                    /\ out_path(order[i]) \in FilesOf(posts)
                    /\ render_paths[i].InPath = order[i]
        ELSE exit.code = 0

\* the part of C8 the code keeps: a failing document ends the whole run
C8_FailureAbortsRun ==
    (pc = "exited" /\ \E p \in DOMAIN src : ~ValidDoc(src[p])) =>
        /\ exit.code = 1
        /\ ~ValidDoc(src[LastOf(order)])
        /\ \A p \in todo :
               /\ out_path(p) \notin DOMAIN posts
               /\ \A r \in Range(render_paths) : r.InPath # p
        /\ \A i \in 1..(Len(order) - 1) :
               /\ out_path(order[i]) \in FilesOf(posts)
               /\ render_paths[i].InPath = order[i]

-----------------------------------------------------------------------------
(* C9, as claimed: a source document offering fewer than five "Key: value"  *)
(* header lines before its body makes the run abort with a fatal error: one *)
(* error line in the log, which identifies the file, a non-zero exit status *)
(* and no output file for the document.                                     *)
C9_ShortHeaderIsFatal ==
    (/\ pc = "exited"
     /\ order # <<>>
     /\ HeaderLength(src[LastOf(order)]) < HEADER_LINES)
        => /\ exit.code # 0
           /\ Cardinality({i \in 1..Len(log) : log[i].level = "ERROR"}) = 1
           /\ LastOf(log).level = "ERROR"
           /\ LastOf(log).path = LastOf(order)
           /\ out_path(LastOf(order)) \notin DOMAIN posts

\* the part of C9 the code keeps: the run aborts and writes nothing for the file
C9_ShortHeaderAborts ==
    (/\ pc = "exited"
     /\ order # <<>>
     /\ HeaderLength(src[LastOf(order)]) < HEADER_LINES)
        => /\ exit.code = 1
           /\ out_path(LastOf(order)) \notin DOMAIN posts
           /\ Len(src[LastOf(order)]) < HEADER_LINES
                  => LastOf(log) = ErrNoHeader(LastOf(order))

-----------------------------------------------------------------------------
(* C10: index.html is written only in a run in which every source document  *)
(* has been written; the records it then lists are exactly one per source   *)
(* document, each with its output file present in POSTS_DIR, the documents  *)
(* with a non-zero IsDraft included; while the loop runs, and after a run   *)
(* that aborts in the loop, index.html is as it was before the run although *)
(* the regular files POSTS_DIR held before the run are gone.                *)
C10_IndexAfterAllWritten ==
    /\ pc \in {"loop", "index"} => index = before.index
    /\ AbortedInLoop =>
           /\ index = before.index
           /\ Len(render_paths) < Cardinality(DOMAIN src)
           /\ \A n \in FilesOf(before.posts) :
                  n \in DOMAIN posts => \E r \in Range(render_paths) : r.OutPath = n
    /\ (pc = "exited" /\ index # before.index) =>
           /\ todo = {}
           /\ {r.InPath : r \in Range(render_paths)} = DOMAIN src
    /\ Completed =>
           /\ index.state = "written"
           /\ todo = {}
           /\ LET ps == index.render.posts
              IN  /\ Len(ps) = Cardinality(DOMAIN src)
                  /\ \A p \in DOMAIN src :
                         \E i \in 1..Len(ps) :
                             /\ ps[i].InPath = p
                             /\ ps[i].OutPath = <<stem(p), ".html">>
                             /\ ps[i].OutPath \in FilesOf(posts)
                             /\ ps[i].IsDraft = int(FieldOf(src[p], IsDraft)).v

\* a completed run that replaced an old index and lists a draft
C10_Witness ==
    /\ Completed
    /\ before.index = IndexOld
    /\ FilesOf(before.posts) # {}
    /\ Len(index.render.posts) = 2
    /\ \E i \in 1..2 : index.render.posts[i].IsDraft = 1

====
